---- MODULE Spec2Model ----
(***************************************************************************)
(* Model of downmix (src/main.rs): a command-line run that validates its   *)
(* paths, probes the input with ffprobe, scans the reported streams for a  *)
(* channel count above two and, if one is found, runs ffmpeg to produce a  *)
(* stereo copy.                                                            *)
(*                                                                         *)
(* A run is a record (the program counter, the command line and the        *)
(* arguments parsed from it, the file                                      *)
(* system entries the run looks at, the locals of main and downmix, and    *)
(* what the run has done so far: subprocess invocations and emitted lines).*)
(* Every statement of the program is an operator from a run record (and    *)
(* the environment's answer, where there is one) to the next run record.   *)
(* The state holds the run itself plus two companion runs that receive the *)
(* same environment answers: one started without a file at output_path and *)
(* one started with the quiet flag added to or taken off the command line. *)
(***************************************************************************)
EXTENDS Integers, Sequences, FiniteSets, Bags, TLC

VARIABLES run, runNoOutput, runOtherQuiet

vars == <<run, runNoOutput, runOtherQuiet>>

\* Longest `streams` array the probing tool reports in the model.
MaxStreams == 3

\* Longest `streams` array in the specification used for termination.
MaxLiveStreams == 1

\* Most words on the command line after the program name.
MaxArgv == 4

\* Most words on the command line in the specification used for termination.
MaxLiveArgv == 3

\* Option<T> is a sequence of length at most one.
None == <<>>
Some(x) == <<x>>
IsSome(o) == Len(o) = 1
Unwrap(o) == o[1]

\* Result<bool, io::Error> of a file system query.
Ok(b) == [ok |-> TRUE, val |-> b]
Err == [ok |-> FALSE, val |-> FALSE]

----------------------------------------------------------------------------
\* Command line (struct Args) and the file system entries it names.

\* A PathBuf: its displayed name and whether its bytes are valid UTF-8.
InputPaths == {[name |-> "in.mkv", utf8 |-> TRUE], [name |-> "in?.mkv", utf8 |-> FALSE]}
OutputPaths == {[name |-> "out.mkv", utf8 |-> TRUE], [name |-> "out?.mkv", utf8 |-> FALSE]}

Args == [input_path : InputPaths, output_path : OutputPaths,
         quiet : BOOLEAN, force : BOOLEAN]

\* A word of the command line: one of the flags -q/--quiet, -f/--force,
\* -h/--help, a flag the program does not define ("-x"), or a positional word,
\* which is a path.
NoPath == [name |-> "", utf8 |-> TRUE]
ExtraPath == [name |-> "extra.mkv", utf8 |-> TRUE]
Flag(word) == [word |-> word, path |-> NoPath]
Positional(path) == [word |-> "path", path |-> path]
Shapes(max) == UNION {[1..n -> {"-q", "-f", "-h", "-x", "path"}] : n \in 0..max}

\* The number of positional words among the first i of a shape.
PositionalsUpTo(shape, i) == Cardinality({k \in 1..i : shape[k] = "path"})

\* The command line of a shape: its first positional word is the input path,
\* its second the output path, any further one a third path.
CommandLine(shape, input_path, output_path) ==
    [i \in DOMAIN shape |->
        IF shape[i] # "path" THEN Flag(shape[i])
        ELSE IF PositionalsUpTo(shape, i) = 1 THEN Positional(input_path)
        ELSE IF PositionalsUpTo(shape, i) = 2 THEN Positional(output_path)
        ELSE Positional(ExtraPath)]

\* The outcomes of Args::parse(): the arguments, or the help text was asked
\* for, or the command line is not one the program accepts.
Parsed(args) == [outcome |-> "args", args |-> Some(args)]
HelpRequested == [outcome |-> "help", args |-> None]
UsageError == [outcome |-> "usage", args |-> None]

\* Args::parse() reads the words from left to right: a help flag ends the
\* parse at once, as does an undefined flag, a flag given a second time or a
\* third positional word; at the end both positional words must be there.
RECURSIVE parse_from(_, _, _, _, _)
parse_from(argv, i, quiet, force, paths) ==
    IF i > Len(argv)
    THEN IF Len(paths) < 2 THEN UsageError
         ELSE Parsed([input_path |-> paths[1], output_path |-> paths[2],
                      quiet |-> quiet, force |-> force])
    ELSE CASE argv[i].word = "-h" -> HelpRequested
           [] argv[i].word = "-x" -> UsageError
           [] argv[i].word = "-q" ->
                IF quiet THEN UsageError ELSE parse_from(argv, i + 1, TRUE, force, paths)
           [] argv[i].word = "-f" ->
                IF force THEN UsageError ELSE parse_from(argv, i + 1, quiet, TRUE, paths)
           [] OTHER ->
                IF Len(paths) = 2 THEN UsageError
                ELSE parse_from(argv, i + 1, quiet, force, Append(paths, argv[i].path))

parse(argv) == parse_from(argv, 1, FALSE, FALSE, <<>>)

\* The arguments of a run whose command line has been parsed.
ArgsOf(s) == Unwrap(s.args)

\* What lies at input_path / output_path: a regular file, a directory, nothing,
\* or an entry whose metadata cannot be read (the query returns an io::Error).
InputEntries == {"file", "dir", "missing", "error"}
OutputEntries == {"file", "missing", "error"}

\* Path::to_str: the path as a string, if it is valid UTF-8.
to_str(path) == IF path.utf8 THEN Some(path.name) ELSE None

\* Path::try_exists on the entry at a path.
try_exists(entry) ==
    CASE entry = "error" -> Err
      [] entry = "missing" -> Ok(FALSE)
      [] OTHER -> Ok(TRUE)

\* Path::is_file on the entry at a path (false on any error).
is_file(entry) == entry = "file"

----------------------------------------------------------------------------
\* tracing levels, ordered by verbosity, and the subscriber's filter.
LevelWARN == 2
LevelINFO == 3

\* Variant: the two levels of the filter exchanged.
max_level_exchanged(args) == IF args.quiet THEN LevelINFO ELSE LevelWARN

\* with_max_level(if args.quiet { Level::WARN } else { Level::INFO })
max_level(args) == IF args.quiet THEN LevelWARN ELSE LevelINFO

\* Lines the run emits: the stream they go to, what wrote them, the message,
\* and the number and the path the message names (0 and "" where it names
\* none). The fmt subscriber writes its events to standard output.
InfoLine(msg, n, path) ==
    [stream |-> "stdout", by |-> "info!", msg |-> msg, n |-> n, path |-> path]
StdoutLine(msg, path) ==
    [stream |-> "stdout", by |-> "println!", msg |-> msg, n |-> 0, path |-> path]
ErrorLine(msg) == [stream |-> "stderr", by |-> "main", msg |-> msg, n |-> 0, path |-> ""]
HelpLine == [stream |-> "stdout", by |-> "clap", msg |-> "help", n |-> 0, path |-> ""]
UsageLine == [stream |-> "stderr", by |-> "clap", msg |-> "usage error", n |-> 0, path |-> ""]

\* info!(...): the line reaches the console only if INFO passes the filter.
info(s, msg, n, path) ==
    IF IsSome(s.max_level) /\ LevelINFO <= Unwrap(s.max_level)
    THEN [s EXCEPT !.lines = Append(@, InfoLine(msg, n, path))]
    ELSE s

\* main returns Err(e): the runtime writes "Error: e" to standard error and
\* the process exits with status 1.
Fail(s, msg) ==
    [s EXCEPT !.pc = "FAILED", !.lines = Append(@, ErrorLine(msg)), !.exit = Some(1)]

\* main returns Ok(()): the process exits with status 0.
Succeed(s) == [s EXCEPT !.pc = "DONE", !.exit = Some(0)]

----------------------------------------------------------------------------
\* What the probing tool can write to standard output, as serde_json sees it.

\* A `channels` value: a JSON integer that fits i64, or a JSON string holding
\* digits (as_i64 answers only for the former).
ChannelCounts == {1, 2, 6}
ChannelValues ==
    {[type |-> "int", n |-> k] : k \in ChannelCounts} \cup {[type |-> "string", n |-> 6]}

\* An element of the `streams` array: an object with or without a `channels`
\* member, or a JSON value that is not an object at all.
StreamRecords ==
    {[object |-> FALSE, channels |-> None], [object |-> TRUE, channels |-> None]}
    \cup {[object |-> TRUE, channels |-> Some(v)] : v \in ChannelValues}

StreamArrays(max) == UNION {[1..n -> StreamRecords] : n \in 0..max}

\* Standard output of the probing tool: bytes that are not JSON, JSON without
\* a `streams` member, JSON whose `streams` is not an array, or a report.
ProbeStdouts(max) ==
    {[json |-> FALSE, streams |-> None],
     [json |-> TRUE, streams |-> None],
     [json |-> TRUE, streams |-> Some([array |-> FALSE, items |-> <<>>])]}
    \cup {[json |-> TRUE, streams |-> Some([array |-> TRUE, items |-> q])] : q \in StreamArrays(max)}

\* std::process::Output of a child that ran: exit status and captured streams.
ProbeOutputs(max) ==
    [status : {0, 1}, stderr : {"", "diagnostic"}, stdout : ProbeStdouts(max)]

\* The transcoder's Output, and whether it wrote the destination file.
TranscodeOutputs == [status : {0, 1}, stderr : {"", "diagnostic"}, wrote : BOOLEAN]

\* serde_json::from_slice::<Value>(&output.stdout)
from_slice(stdout) == IF stdout.json THEN Some([streams |-> stdout.streams]) ELSE None

\* json.get("streams").and_then(|streams| streams.as_array())
get_streams(json) ==
    IF IsSome(json.streams) /\ Unwrap(json.streams).array
    THEN Some(Unwrap(json.streams).items)
    ELSE None

\* stream.get("channels"): the member of an object, nothing for any other value.
get_channels(stream) == IF stream.object THEN stream.channels ELSE None

\* Value::as_i64
as_i64(value) == IF value.type = "int" THEN Some(value.n) ELSE None

----------------------------------------------------------------------------
\* The statements of main, each from a run record to the next run record.

Terminal(s) == s.pc \in {"DONE", "FAILED"}

\* let args = Args::parse(): on a help request the help text goes to standard
\* output and the process exits with status 0; on a usage error the error goes
\* to standard error and the process exits with status 2.
parse_args(s) ==
    LET r == parse(s.argv) IN
    CASE r.outcome = "help" ->
           [s EXCEPT !.pc = "DONE", !.argv = <<>>, !.lines = Append(@, HelpLine),
                     !.exit = Some(0)]
      [] r.outcome = "usage" ->
           [s EXCEPT !.pc = "FAILED", !.argv = <<>>, !.lines = Append(@, UsageLine),
                     !.exit = Some(2)]
      [] OTHER -> [s EXCEPT !.pc = "init_tracing", !.argv = <<>>, !.args = r.args]

\* main, lines 25-30: the subscriber is installed.
init_tracing(s) ==
    [s EXCEPT !.pc = "check_input_exists", !.max_level = Some(max_level(ArgsOf(s)))]

\* ensure!(args.input_path.try_exists()?, "'{}' does not exist")
check_input_exists(s) ==
    LET r == try_exists(s.input_entry) IN
    IF ~r.ok THEN Fail(s, "io error")
    ELSE IF ~r.val THEN Fail(s, "does not exist")
    ELSE [s EXCEPT !.pc = "check_input_is_file"]

\* ensure!(args.input_path.is_file(), "'{}' is not a file")
check_input_is_file(s) ==
    IF ~is_file(s.input_entry) THEN Fail(s, "is not a file")
    ELSE [s EXCEPT !.pc = "check_output"]

\* Variant: the existence of the output is never looked at.
check_output_unchecked(s) == [s EXCEPT !.pc = "ffprobe_args"]

\* Variant: the existence of the output is looked at whatever --force says.
check_output_always(s) ==
    LET r == try_exists(s.output_entry) IN
    IF ~r.ok THEN Fail(s, "io error")
    ELSE IF r.val THEN Fail(s, "already exists")
    ELSE [s EXCEPT !.pc = "ffprobe_args"]

\* if !args.force { ensure!(!args.output_path.try_exists()?, "... already exists") }
check_output(s) ==
    IF ~ArgsOf(s).force
    THEN LET r == try_exists(s.output_entry) IN
         IF ~r.ok THEN Fail(s, "io error")
         ELSE IF r.val THEN Fail(s, "already exists")
         ELSE [s EXCEPT !.pc = "ffprobe_args"]
    ELSE [s EXCEPT !.pc = "ffprobe_args"]

\* let ffprobe_args = [args.input_path.to_str().context("invalid path")?, ...]
build_ffprobe_args(s) ==
    LET p == to_str(ArgsOf(s).input_path) IN
    IF ~IsSome(p) THEN Fail(s, "invalid path")
    ELSE [s EXCEPT !.pc = "ffprobe_spawn",
                   !.ffprobe_args = <<Unwrap(p), "-show_streams", "-loglevel", "error",
                                      "-print_format", "json">>]

\* Command::new("ffprobe").args(ffprobe_args).output()?  -- the child is started,
\* or the launch fails with an io::Error.
spawn_ffprobe(s, launched) ==
    LET t == [s EXCEPT !.invocations =
                  Append(@, [program |-> "ffprobe", args |-> s.ffprobe_args])] IN
    IF launched THEN [t EXCEPT !.pc = "ffprobe_wait"] ELSE Fail(t, "ffprobe io error")

\* ... .output(): blocks until the child exits, then holds its Output.
wait_ffprobe(s, out) == [s EXCEPT !.pc = "ffprobe_stderr", !.output = Some(out)]

\* Variant: a probe that wrote to standard error is run once more.
check_ffprobe_stderr_retry(s) ==
    IF Unwrap(s.output).stderr # ""
    THEN IF Len(s.invocations) < 2 THEN [s EXCEPT !.pc = "ffprobe_spawn"]
         ELSE Fail(s, "Error from ffprobe")
    ELSE [s EXCEPT !.pc = "parse_json"]

\* ensure!(output.stderr.is_empty(), "Error from ffprobe:\n{}")
check_ffprobe_stderr(s) ==
    IF Unwrap(s.output).stderr # "" THEN Fail(s, "Error from ffprobe")
    ELSE [s EXCEPT !.pc = "parse_json"]

\* let json = serde_json::from_slice(&output.stdout)?;
\* let streams = json.get("streams").and_then(as_array).context("invalid json")?;
\* let mut too_many_channels = false;
parse_json(s) ==
    LET json == from_slice(Unwrap(s.output).stdout) IN
    IF ~IsSome(json) THEN Fail(s, "json syntax error")
    ELSE LET streams == get_streams(Unwrap(json)) IN
         IF ~IsSome(streams) THEN Fail(s, "invalid json")
         ELSE [s EXCEPT !.pc = "scan", !.streams = Unwrap(streams), !.next = 1,
                        !.too_many_channels = FALSE]

\* Variant: the threshold is `channels >= 2`.
scan_stream_from_two(s) ==
    IF s.next > Len(s.streams) THEN [s EXCEPT !.pc = "decide"]
    ELSE LET field == get_channels(s.streams[s.next]) IN
         IF ~IsSome(field) THEN [s EXCEPT !.next = @ + 1]
         ELSE LET channels == as_i64(Unwrap(field)) IN
              IF ~IsSome(channels) THEN Fail(s, "invalid metadata value")
              ELSE LET t == info(s, "Found channels", Unwrap(channels), ArgsOf(s).input_path.name) IN
                   [t EXCEPT !.next = @ + 1,
                             !.too_many_channels = @ \/ (Unwrap(channels) >= 2)]

\* Variant: a `channels` value that is not an integer is passed over.
scan_stream_skip_invalid(s) ==
    IF s.next > Len(s.streams) THEN [s EXCEPT !.pc = "decide"]
    ELSE LET field == get_channels(s.streams[s.next]) IN
         IF ~IsSome(field) THEN [s EXCEPT !.next = @ + 1]
         ELSE LET channels == as_i64(Unwrap(field)) IN
              IF ~IsSome(channels) THEN [s EXCEPT !.next = @ + 1]
              ELSE LET t == info(s, "Found channels", Unwrap(channels), ArgsOf(s).input_path.name) IN
                   [t EXCEPT !.next = @ + 1,
                             !.too_many_channels = @ \/ (Unwrap(channels) > 2)]

\* Variant: `too_many_channels = channels > 2` in place of `|=`.
scan_stream_assign(s) ==
    IF s.next > Len(s.streams) THEN [s EXCEPT !.pc = "decide"]
    ELSE LET field == get_channels(s.streams[s.next]) IN
         IF ~IsSome(field) THEN [s EXCEPT !.next = @ + 1]
         ELSE LET channels == as_i64(Unwrap(field)) IN
              IF ~IsSome(channels) THEN Fail(s, "invalid metadata value")
              ELSE LET t == info(s, "Found channels", Unwrap(channels), ArgsOf(s).input_path.name) IN
                   [t EXCEPT !.next = @ + 1,
                             !.too_many_channels = Unwrap(channels) > 2]

\* One turn of `for stream in streams { ... }`, lines 78-89; the loop ends
\* when the array is exhausted.
scan_stream(s) ==
    IF s.next > Len(s.streams) THEN [s EXCEPT !.pc = "decide"]
    ELSE LET field == get_channels(s.streams[s.next]) IN
         IF ~IsSome(field) THEN [s EXCEPT !.next = @ + 1]
         ELSE LET channels == as_i64(Unwrap(field)) IN
              IF ~IsSome(channels) THEN Fail(s, "invalid metadata value")
              ELSE LET t == info(s, "Found channels", Unwrap(channels), ArgsOf(s).input_path.name) IN
                   [t EXCEPT !.next = @ + 1,
                             !.too_many_channels = @ \/ (Unwrap(channels) > 2)]

\* if too_many_channels { info!("Downmixing ..."); downmix(args) }
\* else { println!("File '{}' does not need to be downmixed."); Ok(()) }
decide(s) ==
    IF s.too_many_channels
    THEN [info(s, "Downmixing", 0, ArgsOf(s).output_path.name) EXCEPT !.pc = "ffmpeg_args"]
    ELSE Succeed([s EXCEPT !.lines =
                      Append(@, StdoutLine("does not need to be downmixed",
                                           ArgsOf(s).input_path.name))])

----------------------------------------------------------------------------
\* The statements of downmix.

\* Variant: the video stream is not copied (no "-c:v copy").
build_ffmpeg_args_no_copy(s) ==
    LET p == to_str(ArgsOf(s).output_path) IN
    IF ~IsSome(p) THEN Fail(s, "invalid path")
    ELSE [s EXCEPT !.pc = "ffmpeg_spawn",
                   !.ffmpeg_args = <<"-i", Unwrap(to_str(ArgsOf(s).input_path)), "-hide_banner",
                                     "-loglevel", "error", "-y", "-ac", "2", Unwrap(p)>>]

\* let ffmpeg_args = ["-i", input, "-hide_banner", "-loglevel", "error", "-y",
\*                    "-c:v", "copy", "-ac", "2",
\*                    args.output_path.to_str().context("invalid path")?];
build_ffmpeg_args(s) ==
    LET p == to_str(ArgsOf(s).output_path) IN
    IF ~IsSome(p) THEN Fail(s, "invalid path")
    ELSE [s EXCEPT !.pc = "ffmpeg_spawn",
                   !.ffmpeg_args = <<"-i", Unwrap(to_str(ArgsOf(s).input_path)), "-hide_banner",
                                     "-loglevel", "error", "-y", "-c:v", "copy", "-ac", "2",
                                     Unwrap(p)>>]

\* Command::new("ffmpeg").args(ffmpeg_args).output()?  -- the child is started,
\* or the launch fails with an io::Error.
spawn_ffmpeg(s, launched) ==
    LET t == [s EXCEPT !.invocations =
                  Append(@, [program |-> "ffmpeg", args |-> s.ffmpeg_args])] IN
    IF launched THEN [t EXCEPT !.pc = "ffmpeg_wait"] ELSE Fail(t, "ffmpeg io error")

\* Whether the transcoder, run with these arguments, replaces a file that is
\* already at its destination: it does so only when told to by -y.
Overwrites(args, entry, wrote) ==
    wrote /\ entry = "file" /\ \E i \in DOMAIN args : args[i] = "-y"

\* ... .output(): blocks until the child exits, then holds its Output; by then
\* the child may have written the destination.
wait_ffmpeg(s, out) ==
    [s EXCEPT !.pc = "ffmpeg_stderr",
              !.ffmpeg_output = Some([status |-> out.status, stderr |-> out.stderr]),
              !.overwritten = @ \/ Overwrites(s.ffmpeg_args, s.output_entry, out.wrote),
              !.output_entry = IF out.wrote /\ @ = "missing" THEN "file" ELSE @]

\* Variant: the transcoder's standard error is not looked at.
check_ffmpeg_stderr_ignored(s) ==
    Succeed(info(s, "Successfully downmixed", 0, ArgsOf(s).output_path.name))

\* ensure!(output.stderr.is_empty(), "Error from ffmpeg:\n{}");
\* info!("Successfully downmixed to '{}'"); Ok(())
check_ffmpeg_stderr(s) ==
    IF Unwrap(s.ffmpeg_output).stderr # "" THEN Fail(s, "Error from ffmpeg")
    ELSE Succeed(info(s, "Successfully downmixed", 0, ArgsOf(s).output_path.name))

\* Another process creates a file at output_path while the run is between its
\* existence check and the end of the transcoder's work.
create_output(s) == IF s.output_entry = "missing" THEN [s EXCEPT !.output_entry = "file"] ELSE s

----------------------------------------------------------------------------
\* The run as started from the command line: nothing has been done yet.
\* output_at_start keeps what lay at output_path when the run began.
Start(argv, input_entry, output_entry) ==
    [pc |-> "parse_args", argv |-> argv, args |-> None,
     input_entry |-> input_entry, output_entry |-> output_entry,
     output_at_start |-> output_entry,
     max_level |-> None, ffprobe_args |-> <<>>, output |-> None,
     streams |-> <<>>, next |-> 0, too_many_channels |-> FALSE,
     ffmpeg_args |-> <<>>, ffmpeg_output |-> None,
     invocations |-> <<>>, lines |-> <<>>, exit |-> None, overwritten |-> FALSE]

\* The same command line with the quiet flag put in front if it has none, and
\* taken off if it has exactly one.
OtherQuiet(argv) ==
    LET quiets == {i \in DOMAIN argv : argv[i].word = "-q"} IN
    IF quiets = {} THEN <<Flag("-q")>> \o argv
    ELSE IF Cardinality(quiets) = 1 THEN SelectSeq(argv, LAMBDA w : w.word # "-q")
    ELSE argv

InitUpTo(max) ==
    \E shape \in Shapes(max), input_path \in InputPaths, output_path \in OutputPaths,
       input_entry \in InputEntries, output_entry \in OutputEntries :
        LET argv == CommandLine(shape, input_path, output_path) IN
        /\ run = Start(argv, input_entry, output_entry)
        /\ runNoOutput = Start(argv, input_entry, "missing")
        /\ runOtherQuiet = Start(OtherQuiet(argv), input_entry, output_entry)

Init == InitUpTo(MaxArgv)
LiveInit == InitUpTo(MaxLiveArgv)

\* A companion run takes the same step on the same environment answer for as
\* long as it stands at the same statement as the run.
Follow(twin, moved) == IF twin.pc = run.pc THEN moved ELSE twin

Step(moved, movedNoOutput, movedOtherQuiet) ==
    /\ run' = moved
    /\ runNoOutput' = Follow(runNoOutput, movedNoOutput)
    /\ runOtherQuiet' = Follow(runOtherQuiet, movedOtherQuiet)

ParseArgs ==
    /\ run.pc = "parse_args"
    /\ Step(parse_args(run), parse_args(runNoOutput), parse_args(runOtherQuiet))
InitTracing ==
    /\ run.pc = "init_tracing"
    /\ Step(init_tracing(run), init_tracing(runNoOutput), init_tracing(runOtherQuiet))
CheckInputExists ==
    /\ run.pc = "check_input_exists"
    /\ Step(check_input_exists(run), check_input_exists(runNoOutput),
            check_input_exists(runOtherQuiet))
CheckInputIsFile ==
    /\ run.pc = "check_input_is_file"
    /\ Step(check_input_is_file(run), check_input_is_file(runNoOutput),
            check_input_is_file(runOtherQuiet))
CheckOutput ==
    /\ run.pc = "check_output"
    /\ Step(check_output(run), check_output(runNoOutput), check_output(runOtherQuiet))
BuildFfprobeArgs ==
    /\ run.pc = "ffprobe_args"
    /\ Step(build_ffprobe_args(run), build_ffprobe_args(runNoOutput),
            build_ffprobe_args(runOtherQuiet))
SpawnFfprobe ==
    /\ run.pc = "ffprobe_spawn"
    /\ \E launched \in BOOLEAN :
           Step(spawn_ffprobe(run, launched), spawn_ffprobe(runNoOutput, launched),
                spawn_ffprobe(runOtherQuiet, launched))
FfprobeExitsWith(outputs) ==
    /\ run.pc = "ffprobe_wait"
    /\ \E out \in outputs :
           Step(wait_ffprobe(run, out), wait_ffprobe(runNoOutput, out),
                wait_ffprobe(runOtherQuiet, out))
FfprobeExits == FfprobeExitsWith(ProbeOutputs(MaxStreams))
FfprobeExitsShort == FfprobeExitsWith(ProbeOutputs(MaxLiveStreams))
CheckFfprobeStderr ==
    /\ run.pc = "ffprobe_stderr"
    /\ Step(check_ffprobe_stderr(run), check_ffprobe_stderr(runNoOutput),
            check_ffprobe_stderr(runOtherQuiet))
ParseJson ==
    /\ run.pc = "parse_json"
    /\ Step(parse_json(run), parse_json(runNoOutput), parse_json(runOtherQuiet))
ScanStream ==
    /\ run.pc = "scan"
    /\ Step(scan_stream(run), scan_stream(runNoOutput), scan_stream(runOtherQuiet))
Decide ==
    /\ run.pc = "decide"
    /\ Step(decide(run), decide(runNoOutput), decide(runOtherQuiet))
BuildFfmpegArgs ==
    /\ run.pc = "ffmpeg_args"
    /\ Step(build_ffmpeg_args(run), build_ffmpeg_args(runNoOutput),
            build_ffmpeg_args(runOtherQuiet))
SpawnFfmpeg ==
    /\ run.pc = "ffmpeg_spawn"
    /\ \E launched \in BOOLEAN :
           Step(spawn_ffmpeg(run, launched), spawn_ffmpeg(runNoOutput, launched),
                spawn_ffmpeg(runOtherQuiet, launched))
FfmpegExits ==
    /\ run.pc = "ffmpeg_wait"
    /\ \E out \in TranscodeOutputs :
           Step(wait_ffmpeg(run, out), wait_ffmpeg(runNoOutput, out),
                wait_ffmpeg(runOtherQuiet, out))
CheckFfmpegStderr ==
    /\ run.pc = "ffmpeg_stderr"
    /\ Step(check_ffmpeg_stderr(run), check_ffmpeg_stderr(runNoOutput),
            check_ffmpeg_stderr(runOtherQuiet))

\* The window in which a file created by another process is not seen by the
\* run's own existence check: after the check, up to the transcoder's exit.
AfterOutputCheck(s) ==
    s.pc \in {"ffprobe_args", "ffprobe_spawn", "ffprobe_wait", "ffprobe_stderr", "parse_json",
              "scan", "decide", "ffmpeg_args", "ffmpeg_spawn", "ffmpeg_wait"}

OtherProcessCreatesOutput ==
    /\ AfterOutputCheck(run)
    /\ run.output_entry = "missing"
    /\ run' = create_output(run)
    /\ runNoOutput' = create_output(runNoOutput)
    /\ runOtherQuiet' = create_output(runOtherQuiet)

Next ==
    \/ ParseArgs
    \/ InitTracing
    \/ CheckInputExists
    \/ CheckInputIsFile
    \/ CheckOutput
    \/ BuildFfprobeArgs
    \/ SpawnFfprobe
    \/ FfprobeExits
    \/ CheckFfprobeStderr
    \/ ParseJson
    \/ ScanStream
    \/ Decide
    \/ BuildFfmpegArgs
    \/ SpawnFfmpeg
    \/ FfmpegExits
    \/ CheckFfmpegStderr
    \/ OtherProcessCreatesOutput

Spec == Init /\ [][Next]_vars

\* The same program with shorter probe reports, and the scheduling it runs
\* under: the program is a single thread that keeps running, and every child
\* process it waits for exits.
LiveNext ==
    \/ ParseArgs
    \/ InitTracing
    \/ CheckInputExists
    \/ CheckInputIsFile
    \/ CheckOutput
    \/ BuildFfprobeArgs
    \/ SpawnFfprobe
    \/ FfprobeExitsShort
    \/ CheckFfprobeStderr
    \/ ParseJson
    \/ ScanStream
    \/ Decide
    \/ BuildFfmpegArgs
    \/ SpawnFfmpeg
    \/ FfmpegExits
    \/ CheckFfmpegStderr
    \/ OtherProcessCreatesOutput

MainStep ==
    \/ ParseArgs \/ InitTracing \/ CheckInputExists \/ CheckInputIsFile \/ CheckOutput
    \/ BuildFfprobeArgs \/ SpawnFfprobe \/ CheckFfprobeStderr \/ ParseJson
    \/ ScanStream \/ Decide \/ BuildFfmpegArgs \/ SpawnFfmpeg \/ CheckFfmpegStderr

LiveSpec ==
    /\ LiveInit /\ [][LiveNext]_vars
    /\ WF_vars(MainStep) /\ WF_vars(FfprobeExitsShort) /\ WF_vars(FfmpegExits)

----------------------------------------------------------------------------
\* Reading a run: what it invoked, what it emitted, what the probe reported.

InvocationsOf(s, program) == SelectSeq(s.invocations, LAMBDA v : v.program = program)

Emitted(s, stream, msg) ==
    \E i \in DOMAIN s.lines : s.lines[i].stream = stream /\ s.lines[i].msg = msg

ErrorShown(s) == \E i \in DOMAIN s.lines : s.lines[i].stream = "stderr"

\* The flags of a run, once its command line has been parsed into arguments.
Quiet(s) == IsSome(s.args) /\ ArgsOf(s).quiet
Force(s) == IsSome(s.args) /\ ArgsOf(s).force

\* The run printed the help text instead of parsing arguments.
HelpShown(s) == ~IsSome(s.args) /\ Emitted(s, "stdout", "help")

ValidationPcs == {"init_tracing", "check_input_exists", "check_input_is_file", "check_output"}
TranscodingPcs == {"ffmpeg_args", "ffmpeg_spawn", "ffmpeg_wait", "ffmpeg_stderr"}

\* The paths pass validation: the input is a regular file, and the output was
\* absent when the run began unless --force is given.
PathsValid(s) ==
    /\ IsSome(s.args)
    /\ is_file(s.input_entry)
    /\ ArgsOf(s).force \/ s.output_at_start = "missing"

\* The paths fail validation.
PathsInvalid(s) ==
    /\ IsSome(s.args)
    /\ ~is_file(s.input_entry) \/ (~ArgsOf(s).force /\ s.output_at_start # "missing")

\* The probe ran, wrote nothing to standard error and reported a `streams` array.
ProbeReturnedReport(s) ==
    /\ IsSome(s.output)
    /\ Unwrap(s.output).stderr = ""
    /\ Unwrap(s.output).stdout.json
    /\ IsSome(Unwrap(s.output).stdout.streams)
    /\ Unwrap(Unwrap(s.output).stdout.streams).array

Report(s) == Unwrap(Unwrap(s.output).stdout.streams).items

CarriesChannels(record) == record.object /\ IsSome(record.channels)

AllInteger(items) ==
    \A i \in DOMAIN items :
        CarriesChannels(items[i]) => Unwrap(items[i].channels).type = "int"

SomeAboveTwo(items) ==
    \E i \in DOMAIN items :
        /\ CarriesChannels(items[i])
        /\ Unwrap(items[i].channels).type = "int"
        /\ Unwrap(items[i].channels).n > 2

ProbeSucceeded(s) == ProbeReturnedReport(s) /\ AllInteger(Report(s))

IntStream(n) == [object |-> TRUE, channels |-> Some([type |-> "int", n |-> n])]
StringStream == [object |-> TRUE, channels |-> Some([type |-> "string", n |-> 6])]
PlainStream == [object |-> TRUE, channels |-> None]

ExpectedFfmpegArgs(s) ==
    <<"-i", ArgsOf(s).input_path.name, "-hide_banner", "-loglevel", "error", "-y",
      "-c:v", "copy", "-ac", "2", ArgsOf(s).output_path.name>>

----------------------------------------------------------------------------
\* C1: when the paths are valid and the probe reports a streams array whose
\* channel fields are all integers of at most 2 (none at all included), the
\* transcoder is never invoked, and the run ends in DONE having written
\* "does not need to be downmixed" to standard output, quiet or not.
C1_StereoNeedsNoDownmix ==
    (PathsValid(run) /\ ProbeSucceeded(run) /\ ~SomeAboveTwo(Report(run))) =>
        /\ InvocationsOf(run, "ffmpeg") = <<>>
        /\ run.pc \notin TranscodingPcs
        /\ Terminal(run) =>
            /\ run.pc = "DONE"
            /\ Emitted(run, "stdout", "does not need to be downmixed")

C1_Witness ==
    /\ run.pc = "DONE"
    /\ Quiet(run)
    /\ ProbeReturnedReport(run)
    /\ Report(run) = <<IntStream(2), IntStream(2)>>
    /\ Emitted(run, "stdout", "does not need to be downmixed")

\* C2 as stated: when the paths are valid and the probe succeeds with some
\* channel count above 2, the run has invoked the transcoder exactly once,
\* with exactly `-i <input> -hide_banner -loglevel error -y -c:v copy -ac 2 <output>`.
C2_AlwaysInvokesTranscoder ==
    (Terminal(run) /\ PathsValid(run) /\ ProbeSucceeded(run) /\ SomeAboveTwo(Report(run))) =>
        InvocationsOf(run, "ffmpeg") = <<[program |-> "ffmpeg", args |-> ExpectedFfmpegArgs(run)]>>

\* C2, amended: the same, for an output_path that is valid UTF-8; for one that
\* is not, the run fails with "invalid path" and the transcoder is not invoked.
C2_InvokesTranscoderForUtf8Output ==
    (Terminal(run) /\ PathsValid(run) /\ ProbeSucceeded(run) /\ SomeAboveTwo(Report(run))) =>
        IF ArgsOf(run).output_path.utf8
        THEN InvocationsOf(run, "ffmpeg") =
                 <<[program |-> "ffmpeg", args |-> ExpectedFfmpegArgs(run)]>>
        ELSE /\ InvocationsOf(run, "ffmpeg") = <<>>
             /\ run.pc = "FAILED"
             /\ Emitted(run, "stderr", "invalid path")

C2_Witness ==
    /\ Terminal(run)
    /\ ProbeReturnedReport(run)
    /\ Report(run) = <<IntStream(1), IntStream(2), IntStream(6)>>
    /\ Quiet(run) /\ Force(run)
    /\ Len(InvocationsOf(run, "ffmpeg")) = 1

\* C3: when the input is not a regular file, or the output is there when the
\* run begins and --force is not given, the run never invokes a tool and ends
\* in FAILED with an error message; a run that has invoked a tool had valid paths.
C3_NoToolBeforeValidation ==
    /\ PathsInvalid(run) =>
        /\ run.invocations = <<>>
        /\ run.pc \in ValidationPcs \cup {"FAILED"}
        /\ Terminal(run) => run.pc = "FAILED" /\ ErrorShown(run) /\ run.exit = Some(1)
    /\ run.invocations # <<>> => PathsValid(run) /\ run.pc \notin ValidationPcs

C3_Witness ==
    /\ run.pc = "FAILED"
    /\ is_file(run.input_entry)
    /\ ~Force(run) /\ run.output_at_start = "file"
    /\ Emitted(run, "stderr", "already exists")
    /\ run.invocations = <<>>

\* C4: with --force, a run that starts with a file at output_path stands at
\* the same statement, has made the same invocations with the same arguments,
\* has emitted the same lines and has the same exit status as the run that
\* starts without one, and every transcoder invocation carries -y.
C4_ForceIgnoresExistingOutput ==
    Force(run) =>
        /\ run.pc = runNoOutput.pc
        /\ run.invocations = runNoOutput.invocations
        /\ run.lines = runNoOutput.lines
        /\ run.exit = runNoOutput.exit
        /\ \A i \in DOMAIN run.invocations :
               run.invocations[i].program = "ffmpeg" =>
                   \E k \in DOMAIN run.invocations[i].args : run.invocations[i].args[k] = "-y"

C4_Witness ==
    /\ Force(run)
    /\ run.output_at_start = "file"
    /\ run.pc = "DONE"
    /\ run.overwritten /\ ~runNoOutput.overwritten
    /\ Len(InvocationsOf(run, "ffmpeg")) = 1

\* C5: the transcoder is reached only after the probe was launched, wrote
\* nothing to standard error and reported a streams array whose channel fields
\* are all integers; any other probe ends the run in FAILED with no transcoder
\* invocation, whatever the other streams of the report say.
C5_TranscoderOnlyAfterProbe ==
    /\ (InvocationsOf(run, "ffmpeg") # <<>> \/ run.pc \in TranscodingPcs) => ProbeSucceeded(run)
    /\ (Terminal(run) /\ InvocationsOf(run, "ffprobe") # <<>> /\ ~ProbeSucceeded(run)) =>
           /\ run.pc = "FAILED"
           /\ ErrorShown(run)
           /\ InvocationsOf(run, "ffmpeg") = <<>>

C5_Witness ==
    /\ run.pc = "FAILED"
    /\ ProbeReturnedReport(run)
    /\ Unwrap(run.output).status = 0
    /\ Report(run) = <<IntStream(6), StringStream>>
    /\ Emitted(run, "stderr", "invalid metadata value")
    /\ InvocationsOf(run, "ffmpeg") = <<>>

----------------------------------------------------------------------------
\* The two ways a run can end well, and the log line of the second.

NoDownmixEnd(s) ==
    /\ ProbeSucceeded(s)
    /\ ~SomeAboveTwo(Report(s))
    /\ Emitted(s, "stdout", "does not need to be downmixed")

TranscodeEnd(s) == IsSome(s.ffmpeg_output) /\ Unwrap(s.ffmpeg_output).stderr = ""

SuccessLogged(s) ==
    \E i \in DOMAIN s.lines :
        /\ s.lines[i].by = "info!"
        /\ s.lines[i].msg = "Successfully downmixed"
        /\ s.lines[i].path = ArgsOf(s).output_path.name

\* C6 as stated: the exit status is zero exactly when the run ended with the
\* "does not need to be downmixed" message after a successful probe with no
\* count above 2, or with a transcoder that wrote nothing to standard error,
\* and then the success line naming the output path is emitted; every other
\* run exits non-zero with an error message and no success line.
C6_ExitStatusAndSuccessLog ==
    /\ Terminal(run) <=> IsSome(run.exit)
    /\ Terminal(run) =>
        /\ run.exit = Some(0) <=> (NoDownmixEnd(run) \/ TranscodeEnd(run))
        /\ TranscodeEnd(run) => SuccessLogged(run)
        /\ run.exit # Some(0) => ErrorShown(run) /\ ~SuccessLogged(run)

\* C6, amended: the exit status is zero exactly when the command line asked
\* for help (the help text is printed and no tool is invoked), or the run
\* ended in one of the two ways above, and in the second the success line is
\* emitted exactly when the quiet flag is not set; every other run exits with
\* an error message and no success line, with status 2 when the command line
\* was not accepted and status 1 otherwise.
C6_ExitStatusAndSuccessLogUnlessQuiet ==
    /\ Terminal(run) <=> IsSome(run.exit)
    /\ Terminal(run) =>
        /\ run.exit = Some(0) <=> (HelpShown(run) \/ NoDownmixEnd(run) \/ TranscodeEnd(run))
        /\ HelpShown(run) => run.invocations = <<>> /\ run.lines = <<HelpLine>>
        /\ TranscodeEnd(run) => (SuccessLogged(run) <=> ~Quiet(run))
        /\ run.exit = Some(0) => ~ErrorShown(run)
        /\ run.exit # Some(0) =>
               /\ ErrorShown(run) /\ ~SuccessLogged(run)
               /\ run.exit = IF IsSome(run.args) THEN Some(1) ELSE Some(2)
               /\ ~IsSome(run.args) => run.invocations = <<>> /\ run.lines = <<UsageLine>>

C6_Witness ==
    /\ run.pc = "DONE"
    /\ Quiet(run)
    /\ TranscodeEnd(run)
    /\ Unwrap(run.ffmpeg_output).status = 1
    /\ ~SuccessLogged(run)
    /\ run.exit = Some(0)

\* What a run wrote other than through info!.
NotInformational(s) == SelectSeq(s.lines, LAMBDA line : line.by # "info!")

\* C7: a quiet run emits no informational line ("Found N channels",
\* "Downmixing", "Successfully downmixed"), a quiet run that fails still ends
\* with its error message, and the run whose command line differs in the quiet
\* flag stands at the same statement, with the same invocations and arguments,
\* the same exit status and the same lines other than the informational ones.
C7_QuietOnlySilencesLog ==
    /\ Quiet(run) => \A i \in DOMAIN run.lines : run.lines[i].by # "info!"
    /\ (Quiet(run) /\ run.pc = "FAILED") =>
           run.lines # <<>> /\ run.lines[Len(run.lines)].stream = "stderr"
    /\ IsSome(run.args) => (Quiet(run) <=> ~Quiet(runOtherQuiet))
    /\ run.pc = runOtherQuiet.pc
    /\ run.invocations = runOtherQuiet.invocations
    /\ run.exit = runOtherQuiet.exit
    /\ NotInformational(run) = NotInformational(runOtherQuiet)

C7_Witness ==
    /\ Quiet(run)
    /\ run.pc = "FAILED"
    /\ Emitted(run, "stderr", "Error from ffmpeg")
    /\ Emitted(runOtherQuiet, "stdout", "Found channels")
    /\ Emitted(runOtherQuiet, "stdout", "Downmixing")
    /\ run.lines = <<ErrorLine("Error from ffmpeg")>>

----------------------------------------------------------------------------
\* The states of the decision logic and the transitions between them.

Phase(s) ==
    CASE s.pc \in {"parse_args"} \cup ValidationPcs -> "START"
      [] s.pc \in {"ffprobe_args", "ffprobe_spawn", "ffprobe_wait", "ffprobe_stderr",
                   "parse_json", "scan"} -> "INSPECTING"
      [] s.pc = "decide" -> "DECIDING"
      [] s.pc \in TranscodingPcs -> "TRANSCODING"
      [] OTHER -> s.pc

NonTerminalPhases == {"START", "INSPECTING", "DECIDING", "TRANSCODING"}

Edges ==
    {<<"START", "INSPECTING">>, <<"INSPECTING", "DECIDING">>, <<"DECIDING", "TRANSCODING">>,
     <<"DECIDING", "DONE">>, <<"TRANSCODING", "DONE">>}
    \cup {<<p, "FAILED">> : p \in NonTerminalPhases}

\* The statements in program order.
PcOrder ==
    <<"parse_args", "init_tracing", "check_input_exists", "check_input_is_file",
      "check_output", "ffprobe_args", "ffprobe_spawn", "ffprobe_wait", "ffprobe_stderr",
      "parse_json", "scan", "decide", "ffmpeg_args", "ffmpeg_spawn", "ffmpeg_wait",
      "ffmpeg_stderr", "DONE", "FAILED">>

PcIndex(pc) == CHOOSE i \in DOMAIN PcOrder : PcOrder[i] = pc

\* A step stays in a non-terminal state while moving forward in the program
\* (the scan loop by advancing to the next stream), or is another process
\* creating the output file.
Within ==
    /\ Phase(run') = Phase(run)
    /\ Phase(run) \in NonTerminalPhases
    /\ \/ PcIndex(run.pc) < PcIndex(run'.pc)
       \/ run.pc = "scan" /\ run'.pc = "scan" /\ run'.next > run.next
       \/ run' = [run EXCEPT !.output_entry = "file"]

\* A step moves along an edge of the state machine or within a state.
Forward == <<Phase(run), Phase(run')>> \in Edges \/ Within

\* The step from START to DONE of a run asked for help.
HelpExit ==
    /\ run.pc = "parse_args" /\ parse(run.argv).outcome = "help"
    /\ run'.pc = "DONE" /\ run'.invocations = <<>>

\* Each tool is invoked at most once, the transcoder only after a successful probe.
ToolsOnceInOrder ==
    /\ Len(InvocationsOf(run, "ffprobe")) <= 1
    /\ Len(InvocationsOf(run, "ffmpeg")) <= 1
    /\ InvocationsOf(run, "ffmpeg") # <<>> =>
           /\ ProbeSucceeded(run)
           /\ run.invocations[1].program = "ffprobe"

\* C8 as stated: every step follows START -> INSPECTING -> DECIDING ->
\* (TRANSCODING ->) DONE or goes to FAILED, never backwards and never out of
\* DONE or FAILED; each tool is invoked at most once, the transcoder only after
\* a successful probe; and, the program running and its child processes
\* exiting, the run reaches DONE or FAILED.
C8_StateMachineTerminates ==
    /\ [][Forward]_vars
    /\ []ToolsOnceInOrder
    /\ <>Terminal(run)

\* C8, amended: the same, with one more transition: a run whose command line
\* asks for help goes from START to DONE without invoking a tool.
C8_StateMachineWithHelpTerminates ==
    /\ [][Forward \/ HelpExit]_vars
    /\ []ToolsOnceInOrder
    /\ <>Terminal(run)

C8_Witness ==
    /\ run.pc = "DONE"
    /\ Len(InvocationsOf(run, "ffprobe")) = 1
    /\ Len(InvocationsOf(run, "ffmpeg")) = 1
    /\ Len(run.streams) = 1

----------------------------------------------------------------------------
\* The integer channel counts of a report, in stream order and as a bag.

Carrying(items) == SelectSeq(items, CarriesChannels)

CountsInOrder(items) ==
    [i \in 1..Len(Carrying(items)) |-> Unwrap(Carrying(items)[i].channels).n]

CountBag(items) ==
    LET counts == CountsInOrder(items) IN
    [n \in {counts[i] : i \in DOMAIN counts} |->
        Cardinality({i \in DOMAIN counts : counts[i] = n})]

DecisionOf(bag) == \E n \in BagToSet(bag) : n > 2

\* The scan loop run to its end from a given state.
RECURSIVE ScanAll(_)
ScanAll(s) == IF s.pc = "scan" THEN ScanAll(scan_stream(s)) ELSE s

\* The scan loop run afresh over the same records in another order.
Rescan(s, items) ==
    ScanAll([s EXCEPT !.pc = "scan", !.streams = items, !.next = 1,
                      !.too_many_channels = FALSE])

Reordered(items, p) == [i \in DOMAIN items |-> items[p[i]]]

\* The "Found N channels" lines of a run, as the sequence of their N.
FoundCounts(s) ==
    LET found == SelectSeq(s.lines, LAMBDA line : line.by = "info!" /\ line.msg = "Found channels")
    IN [i \in DOMAIN found |-> found[i].n]

\* C9 as stated: when the scan of a report ends, its channel fields were all
\* integers, the decision is that of the bag of those integers (some count
\* above 2), the scan of the same records in any other order ends with the
\* same decision, and the run has emitted one "Found N channels" line per
\* channel-bearing stream, in stream order; a report whose channel fields are
\* all integers never fails for its metadata, whatever streams lack the field.
C9_DecisionFromBagOfCounts ==
    /\ run.pc = "decide" =>
        /\ run.streams = Report(run)
        /\ AllInteger(run.streams)
        /\ run.too_many_channels = DecisionOf(CountBag(run.streams))
        /\ \A p \in Permutations(DOMAIN run.streams) :
               LET other == Rescan(run, Reordered(run.streams, p)) IN
               other.pc = "decide" /\ other.too_many_channels = run.too_many_channels
        /\ FoundCounts(run) = CountsInOrder(run.streams)
    /\ (ProbeSucceeded(run) /\ run.pc = "FAILED") =>
           /\ ~Emitted(run, "stderr", "invalid metadata value")
           /\ run.too_many_channels

\* C9, amended: the same, except that the "Found N channels" lines are
\* emitted, one per channel-bearing stream in stream order, exactly when the
\* quiet flag is not set; a quiet run emits none of them.
C9_DecisionFromBagOfCountsLoggedUnlessQuiet ==
    /\ run.pc = "decide" =>
        /\ run.streams = Report(run)
        /\ AllInteger(run.streams)
        /\ run.too_many_channels = DecisionOf(CountBag(run.streams))
        /\ \A p \in Permutations(DOMAIN run.streams) :
               LET other == Rescan(run, Reordered(run.streams, p)) IN
               other.pc = "decide" /\ other.too_many_channels = run.too_many_channels
        /\ FoundCounts(run) = IF Quiet(run) THEN <<>> ELSE CountsInOrder(run.streams)
    /\ (ProbeSucceeded(run) /\ run.pc = "FAILED") =>
           /\ ~Emitted(run, "stderr", "invalid metadata value")
           /\ run.too_many_channels

C9_Witness ==
    /\ run.pc = "decide"
    /\ ~Quiet(run)
    /\ run.streams = <<IntStream(6), PlainStream, IntStream(1)>>
    /\ run.too_many_channels
    /\ FoundCounts(run) = <<6, 1>>
    /\ Quiet(runOtherQuiet)
    /\ runOtherQuiet.streams = run.streams
    /\ FoundCounts(runOtherQuiet) = <<>>

\* C10: without --force, no run replaces a file that lies at output_path,
\* also when another process puts the file there after the run's check.
C10_NoOverwriteWithoutForce == ~Force(run) => ~run.overwritten

====
